---------------------------- MODULE Spec2Model ----------------------------
(***************************************************************************)
(* Model of the gravity simulation core of BlackholeSimulator:             *)
(*   include/Vec2.h, src/GravityBody.cpp, src/GravityGrid.cpp,             *)
(*   src/GravitySimulation.cpp.                                            *)
(*                                                                         *)
(* Numbers.  The program computes in IEEE single precision.  A float is    *)
(* modelled as an integer count of 1/Unit world units: every operation     *)
(* computes the exact result and rounds it to the nearest representable    *)
(* value (ties to even), results beyond FMax overflow to +/-infinity, and  *)
(* the invalid operations (0/0, inf-inf, 0*inf, sqrt of a negative) give   *)
(* NaN, on which every comparison is false.  The sign of zero is not       *)
(* modelled.  Precision and range are smaller than the program's; the      *)
(* order of the operations and of the roundings is the program's.          *)
(***************************************************************************)
EXTENDS Integers, Sequences, FiniteSets

\* Representable values per world unit (the resolution of the modelled float):
\* fine enough for the damping of applyForce to act on an orbital speed.
Unit == 256

\* INT_MAX of the program's int, which is also the evaluator's.
IntMax == 2147483647

\* The largest finite float of the model, and the three floats above it.
FMax == IntMax - 2
PInf == IntMax - 1
NInf == -(IntMax - 1)
NaN == IntMax

IsNaN(a) == a = NaN
IsInf(a) == a = PInf \/ a = NInf
IsFin(a) == ~IsNaN(a) /\ ~IsInf(a)

Abs(n) == IF n < 0 THEN -n ELSE n
Sgn(n) == IF n < 0 THEN -1 ELSE IF n > 0 THEN 1 ELSE 0

\* n / d for integers, d > 0, rounded to nearest, ties to even.
RoundDiv(n, d) == LET a == Abs(n)
                      q == a \div d
                      r == a % d
                      m == IF 2 * r > d \/ (2 * r = d /\ q % 2 = 1) THEN q + 1 ELSE q
                  IN  Sgn(n) * m

\* The float of a literal n/d (d > 0) of the source, e.g. F(16, 1000) for
\* 0.016f, rounded to the nearest representable value.
F(n, d) == RoundDiv(n * Unit, d)

(* Magnitudes: the arithmetic below works on absolute values, 0 .. FMax, with
   PInf standing for every result above FMax.  Products and quotients are
   formed in parts so that no intermediate value exceeds IntMax. *)
AddMag(x, y) == IF x = PInf \/ y = PInf THEN PInf
                ELSE IF x > FMax - y THEN PInf
                ELSE x + y

\* floor(a * b / Unit)
ProdFloor(a, b) ==
    LET a1 == a \div Unit
        a0 == a % Unit
        t1 == IF a1 = 0 \/ b = 0 THEN 0
              ELSE IF a1 > FMax \div b THEN PInf
              ELSE a1 * b
        t2 == a0 * (b \div Unit)
        t3 == (a0 * (b % Unit)) \div Unit
    IN  AddMag(AddMag(t1, t2), t3)

\* (a * b) mod Unit
ProdRem(a, b) == ((a % Unit) * (b % Unit)) % Unit

\* a * b / Unit rounded to nearest, ties to even.
MulMag(a, b) ==
    LET q == ProdFloor(a, b)
        r == ProdRem(a, b)
    IN  IF q = PInf THEN PInf
        ELSE IF 2 * r > Unit \/ (2 * r = Unit /\ q % 2 = 1) THEN AddMag(q, 1)
        ELSE q

\* <<floor(r * n / b), (r * n) mod b>> for 0 <= r < b, by doubling.
RECURSIVE WideQR(_, _, _)
WideQR(r, n, b) ==
    IF n = 0 THEN <<0, 0>>
    ELSE LET h == WideQR(r, n \div 2, b)
             c1 == IF h[2] >= b - h[2] THEN 1 ELSE 0
             m1 == IF c1 = 1 THEN h[2] - (b - h[2]) ELSE h[2] + h[2]
             c2 == IF n % 2 = 1 /\ m1 >= b - r THEN 1 ELSE 0
             m2 == IF n % 2 = 0 THEN m1
                   ELSE IF c2 = 1 THEN m1 - (b - r) ELSE m1 + r
         IN  <<2 * h[1] + c1 + c2, m2>>

\* a * Unit / b rounded to nearest, ties to even, for b > 0.
DivMag(a, b) ==
    LET q1 == a \div b
        w == WideQR(a % b, Unit, b)
        q == IF q1 > FMax \div Unit THEN PInf ELSE AddMag(q1 * Unit, w[1])
    IN  IF q = PInf THEN PInf
        ELSE IF w[2] > b - w[2] \/ (w[2] = b - w[2] /\ q % 2 = 1) THEN AddMag(q, 1)
        ELSE q

\* Largest r in lo..hi with r * r <= a * Unit.
RECURSIVE RootIn(_, _, _)
RootIn(a, lo, hi) ==
    IF lo >= hi THEN lo
    ELSE LET mid == (lo + hi + 1) \div 2
             q == ProdFloor(mid, mid)
         IN  IF q < a \/ (q = a /\ ProdRem(mid, mid) = 0)
             THEN RootIn(a, mid, hi)
             ELSE RootIn(a, lo, mid - 1)

\* sqrt(a * Unit) rounded to nearest: r + 1 is nearer when r * (r + 1) < a * Unit.
SqrtMag(a) == LET r == RootIn(a, 0, 1048575)
              IN  IF ProdFloor(r, r + 1) < a THEN r + 1 ELSE r

\* A magnitude with its sign.
Signed(s, m) == IF m = PInf THEN (IF s > 0 THEN PInf ELSE NInf) ELSE s * m

(* The float operations. *)
FNeg(a) == IF IsNaN(a) THEN NaN ELSE -a

FAdd(a, b) == IF IsNaN(a) \/ IsNaN(b) THEN NaN
              ELSE IF IsInf(a) THEN (IF IsInf(b) /\ b # a THEN NaN ELSE a)
              ELSE IF IsInf(b) THEN b
              ELSE IF a > 0 /\ b > 0 THEN AddMag(a, b)
              ELSE IF a < 0 /\ b < 0 THEN Signed(-1, AddMag(-a, -b))
              ELSE a + b

FSub(a, b) == FAdd(a, FNeg(b))

FMul(a, b) == IF IsNaN(a) \/ IsNaN(b) THEN NaN
              ELSE IF a = 0 \/ b = 0 THEN (IF IsInf(a) \/ IsInf(b) THEN NaN ELSE 0)
              ELSE IF IsInf(a) \/ IsInf(b) THEN Signed(Sgn(a) * Sgn(b), PInf)
              ELSE Signed(Sgn(a) * Sgn(b), MulMag(Abs(a), Abs(b)))

FDiv(a, b) == IF IsNaN(a) \/ IsNaN(b) THEN NaN
              ELSE IF IsInf(a)
                   THEN (IF IsInf(b) THEN NaN
                         ELSE Signed(Sgn(a) * (IF b < 0 THEN -1 ELSE 1), PInf))
              ELSE IF IsInf(b) THEN 0
              ELSE IF b = 0
                   THEN (IF a = 0 THEN NaN ELSE Signed(Sgn(a), PInf))
              ELSE IF a = 0 THEN 0
              ELSE Signed(Sgn(a) * Sgn(b), DivMag(Abs(a), Abs(b)))

\* std::sqrt
FSqrt(a) == IF IsNaN(a) \/ a < 0 THEN NaN
            ELSE IF a = PInf THEN PInf
            ELSE SqrtMag(a)

\* a * c for a literal c = n/d of the source with 0 < n <= d (0.9999f, 0.8f,
\* 0.5f): the exact product, rounded once.
MulLit(a, n, d) == IF ~IsFin(a) THEN a
                   ELSE LET m == Abs(a)
                            t == (m \div d) * n + ((m % d) * n) \div d
                            r == ((m % d) * n) % d
                        IN  Sgn(a) * (IF 2 * r > d \/ (2 * r = d /\ t % 2 = 1)
                                      THEN t + 1 ELSE t)

\* Comparisons of floats: false when an operand is NaN.
FLt(a, b) == ~IsNaN(a) /\ ~IsNaN(b) /\ a < b
FGt(a, b) == FLt(b, a)

\* std::min(a, b) is (b < a) ? b : a; std::max(a, b) is (a < b) ? b : a.
StdMin(a, b) == IF FLt(b, a) THEN b ELSE a
StdMax(a, b) == IF FLt(a, b) THEN b ELSE a

(***************************************************************************)
(* include/Vec2.h                                                          *)
(***************************************************************************)
Vec2(x, y) == [x |-> x, y |-> y]

VAdd(a, b) == Vec2(FAdd(a.x, b.x), FAdd(a.y, b.y))
VSub(a, b) == Vec2(FSub(a.x, b.x), FSub(a.y, b.y))
VScale(a, scalar) == Vec2(FMul(a.x, scalar), FMul(a.y, scalar))

\* force / mass in GravityBody::applyForce: Vec2.h declares no operator/, the
\* division is taken componentwise, as operator* is.
VDiv(a, scalar) == Vec2(FDiv(a.x, scalar), FDiv(a.y, scalar))

magnitudeSquared(a) == FAdd(FMul(a.x, a.x), FMul(a.y, a.y))
magnitude(a) == FSqrt(magnitudeSquared(a))

normalized(a) == LET mag == magnitude(a)
                 IN  IF FGt(mag, 0) THEN Vec2(FDiv(a.x, mag), FDiv(a.y, mag))
                     ELSE Vec2(0, 0)

(***************************************************************************)
(* src/GravityBody.cpp                                                     *)
(***************************************************************************)
GravityBody(position, mass, radius) ==
    [position |-> position, velocity |-> Vec2(0, 0), mass |-> mass, radius |-> radius]

setVelocity(body, newVelocity) == [body EXCEPT !.velocity = newVelocity]
setPosition(body, newPosition) == [body EXCEPT !.position = newPosition]

\* The clamps of calculateGravitationalForce (grid sampling).
PointMinDistance == 1
PointMaxForce == 1000

\* The clamps of calculateForceFrom (body on body).
BodyMinDistance == 10
BodyMaxForce == 5000

calculateGravitationalForce(body, point, G) ==
    LET direction == VSub(body.position, point)
        d2 == magnitudeSquared(direction)
        minDistance == F(PointMinDistance, 1)
        minSquared == FMul(minDistance, minDistance)
        distanceSquared == IF FLt(d2, minSquared) THEN minSquared ELSE d2
        forceMagnitude == StdMin(FDiv(FMul(G, body.mass), distanceSquared),
                                 F(PointMaxForce, 1))
    IN  VScale(normalized(direction), forceMagnitude)

\* The force of calculateForceFrom with the direction taken from the other
\* body to this one.
calculateForceFromRepelling(self, other, G) ==
    LET direction == VSub(self.position, other.position)
        d2 == magnitudeSquared(direction)
        minDistance == F(BodyMinDistance, 1)
        minSquared == FMul(minDistance, minDistance)
        distanceSquared == IF FLt(d2, minSquared) THEN minSquared ELSE d2
        forceMagnitude == StdMin(FDiv(FMul(FMul(G, self.mass), other.mass),
                                      distanceSquared),
                                 F(BodyMaxForce, 1))
    IN  VScale(normalized(direction), forceMagnitude)

calculateForceFrom(self, other, G) ==
    LET direction == VSub(other.position, self.position)
        d2 == magnitudeSquared(direction)
        minDistance == F(BodyMinDistance, 1)
        minSquared == FMul(minDistance, minDistance)
        distanceSquared == IF FLt(d2, minSquared) THEN minSquared ELSE d2
        forceMagnitude == StdMin(FDiv(FMul(FMul(G, self.mass), other.mass),
                                      distanceSquared),
                                 F(BodyMaxForce, 1))
    IN  VScale(normalized(direction), forceMagnitude)

\* velocity * 0.9999f
Damp(v) == MulLit(v, 9999, 10000)

applyForce(body, force, deltaTime) ==
    LET acceleration == VDiv(force, body.mass)
        v == VAdd(body.velocity, VScale(acceleration, deltaTime))
    IN  [body EXCEPT !.velocity = Vec2(Damp(v.x), Damp(v.y))]

updatePosition(body, deltaTime) ==
    [body EXCEPT !.position = VAdd(body.position, VScale(body.velocity, deltaTime))]

(***************************************************************************)
(* src/GravityGrid.cpp                                                     *)
(***************************************************************************)
\* An int converted to float (static_cast<float>, or the int operand of a
\* float operation).
IntToFloat(i) == IF Abs(i) > FMax \div Unit
                 THEN (IF i > 0 THEN PInf ELSE NInf)
                 ELSE i * Unit

\* static_cast<int>(f): truncation toward zero.  For an infinity or a NaN the
\* conversion is undefined and the outcome is whatever the build produces: ub.
CastInt(f, ub) == IF IsFin(f) THEN Sgn(f) * (Abs(f) \div Unit) ELSE ub

\* The int outcomes of an undefined float-to-int conversion on the usual
\* targets: INT_MIN ("integer indefinite"), 0 and INT_MAX (saturation).
CastUB == {-IntMax - 1, 0, IntMax}

\* std::min / std::max on ints.
IMin(a, b) == IF b < a THEN b ELSE a
IMax(a, b) == IF a < b THEN b ELSE a

\* The floor of the grid dimensions.
MinGridSize == 10

\* GridDim without the floor of lines 12-13 (the std::max calls left out).
GridDimUnfloored(extent, gridResolution, ub) ==
    CastInt(FDiv(FMul(extent, IntToFloat(gridResolution)), F(100, 1)), ub)

\* The grid dimension the constructor derives from a world dimension.
GridDim(extent, gridResolution, ub) ==
    IMax(CastInt(FDiv(FMul(extent, IntToFloat(gridResolution)), F(100, 1)), ub),
         MinGridSize)

\* GravityGrid::GravityGrid
NewGravityGrid(width, height, gridResolution, ubW, ubH) ==
    LET gw == GridDim(width, gridResolution, ubW)
        gh == GridDim(height, gridResolution, ubH)
    IN  [worldWidth  |-> width,
         worldHeight |-> height,
         gridWidth   |-> gw,
         gridHeight  |-> gh,
         gridSpacing |-> FDiv(width, IntToFloat(gw - 1)),
         forces      |-> [y \in 0 .. gh - 1 |-> [x \in 0 .. gw - 1 |-> Vec2(0, 0)]]]

isValidGridPoint(g, gridX, gridY) ==
    gridX >= 0 /\ gridX < g.gridWidth /\ gridY >= 0 /\ gridY < g.gridHeight

gridToWorld(g, gridX, gridY) ==
    Vec2(FMul(FDiv(IntToFloat(gridX), IntToFloat(g.gridWidth - 1)), g.worldWidth),
         FMul(FDiv(IntToFloat(gridY), IntToFloat(g.gridHeight - 1)), g.worldHeight))

\* worldToGrid without the clamp of lines 69-70.
worldToGridUnclamped(g, worldPos, ubX, ubY) ==
    <<CastInt(FMul(FDiv(worldPos.x, g.worldWidth), IntToFloat(g.gridWidth - 1)), ubX),
      CastInt(FMul(FDiv(worldPos.y, g.worldHeight), IntToFloat(g.gridHeight - 1)), ubY)>>

worldToGrid(g, worldPos, ubX, ubY) ==
    LET gridX == CastInt(FMul(FDiv(worldPos.x, g.worldWidth),
                              IntToFloat(g.gridWidth - 1)), ubX)
        gridY == CastInt(FMul(FDiv(worldPos.y, g.worldHeight),
                              IntToFloat(g.gridHeight - 1)), ubY)
    IN  <<IMax(0, IMin(gridX, g.gridWidth - 1)),
          IMax(0, IMin(gridY, g.gridHeight - 1))>>

\* getForceAtGridPoint with the index clamped into the grid instead of the
\* bounds check of line 51.
getForceAtGridPointClamped(g, gridX, gridY) ==
    g.forces[IMax(0, IMin(gridY, g.gridHeight - 1))][IMax(0, IMin(gridX, g.gridWidth - 1))]

getForceAtGridPoint(g, gridX, gridY) ==
    IF isValidGridPoint(g, gridX, gridY) THEN g.forces[gridY][gridX] ELSE Vec2(0, 0)

getForceMagnitudeAtGridPoint(g, gridX, gridY) ==
    IF isValidGridPoint(g, gridX, gridY) THEN magnitude(g.forces[gridY][gridX]) ELSE 0

\* The inner loop of updateGrid: totalForce += force, over bodies[k..] in order.
\* sum is the one value of totalForce after the addition for bodies[k].
RECURSIVE SumPointForces(_, _, _, _, _)
SumPointForces(bodies, k, point, G, totalForce) ==
    IF k > Len(bodies) THEN totalForce
    ELSE CHOOSE r \in { SumPointForces(bodies, k + 1, point, G, sum) :
               sum \in { VAdd(totalForce,
                              calculateGravitationalForce(bodies[k], point, G)) } } : TRUE

\* CellForce without the reset of lines 26-30: the sum goes on from what the
\* cell held.
CellForceAccumulated(g, bodies, G, x, y) ==
    SumPointForces(bodies, 1, gridToWorld(g, x, y), G, g.forces[y][x])

\* The value updateGrid stores in forces[y][x]: the sum starts from a fresh
\* zero vector, whatever the cell held.
CellForce(g, bodies, G, x, y) ==
    SumPointForces(bodies, 1, gridToWorld(g, x, y), G, Vec2(0, 0))

\* GravityGrid::updateGrid: every cell is reset and then overwritten.
updateGrid(g, bodies, G) ==
    [g EXCEPT !.forces = [y \in 0 .. g.gridHeight - 1 |->
                            [x \in 0 .. g.gridWidth - 1 |-> CellForce(g, bodies, G, x, y)]]]

(***************************************************************************)
(* src/GravitySimulation.cpp                                               *)
(***************************************************************************)
VARIABLES
    worldWidth,             \* GravitySimulation::worldWidth
    worldHeight,            \* GravitySimulation::worldHeight
    gravitationalConstant,  \* GravitySimulation::gravitationalConstant
    needsGridUpdate,        \* GravitySimulation::needsGridUpdate
    bodies,                 \* GravitySimulation::bodies, in insertion order
    gravityGrid,            \* *GravitySimulation::gravityGrid
    lastOp,                 \* history: the last call made on the simulation
    initializeCalled,       \* history: initialize has been called
    gridRead,               \* history: getGravityGrid was called since lastOp
    lastStep,               \* history: per body, what the last update did to it
    calls,                  \* history: number of calls made on the object explored
    call,                   \* the last call of a pure function and its result
    cameraController,       \* a CameraController
    application,            \* an Application
    gravityRenderer,        \* a GravityRenderer
    bodyObjects,            \* the objects of GravitySimulation::bodies, by identity
    gravityApplication      \* the GravityApplication of main.cpp

vars == <<worldWidth, worldHeight, gravitationalConstant, needsGridUpdate, bodies,
          gravityGrid, lastOp, initializeCalled, gridRead, lastStep, calls, call,
          cameraController, application, gravityRenderer, bodyObjects,
          gravityApplication>>

worldSize == <<worldWidth, worldHeight>>

\* The objects that are no part of a GravitySimulation.
renderingObjects == <<gravityRenderer, bodyObjects, gravityApplication>>
otherObjects == <<cameraController, application, renderingObjects>>

\* The gravitational constant the constructor sets.
DefaultG == 80

\* A planet of createDefaultBodies: at centre + (distance, 0), moving along y
\* with speed sqrt(G * M_sun / distance).
Planet(centerX, centerY, G_times_M_sun, distance, mass, radius) ==
    setVelocity(GravityBody(Vec2(FAdd(centerX, distance), centerY), mass, radius),
                Vec2(0, FSqrt(FDiv(G_times_M_sun, distance))))

\* GravitySimulation::createDefaultBodies: the seven bodies it adds, in order.
createDefaultBodies(W, H, G) ==
    LET centerX == MulLit(W, 1, 2)
        centerY == MulLit(H, 1, 2)
        gm == FMul(G, F(5000, 1))
    IN  << setVelocity(GravityBody(Vec2(centerX, centerY), F(5000, 1), F(15, 1)),
                       Vec2(0, 0)),
           Planet(centerX, centerY, gm, F(60, 1),  F(8, 1),  F(25, 10)),
           Planet(centerX, centerY, gm, F(85, 1),  F(18, 1), F(38, 10)),
           Planet(centerX, centerY, gm, F(110, 1), F(20, 1), F(4, 1)),
           Planet(centerX, centerY, gm, F(140, 1), F(10, 1), F(32, 10)),
           Planet(centerX, centerY, gm, F(220, 1), F(80, 1), F(8, 1)),
           Planet(centerX, centerY, gm, F(300, 1), F(60, 1), F(7, 1)) >>

\* The inner loop of updateBodies: forces[i] = forces[i] + force over j = k..n,
\* j # i, in order.  sum is the one value of forces[i] after the step for k.
RECURSIVE SumBodyForces(_, _, _, _, _)
SumBodyForces(bs, i, k, G, total) ==
    IF k > Len(bs) THEN total
    ELSE CHOOSE r \in { SumBodyForces(bs, i, k + 1, G, sum) :
               sum \in { IF i # k THEN VAdd(total, calculateForceFrom(bs[i], bs[k], G))
                         ELSE total } } : TRUE

\* updatePosition before applyForce: the position moves with the velocity of
\* the step before.
IntegrateWithLag(body, force, deltaTime) ==
    applyForce(updatePosition(body, deltaTime), force, deltaTime)

\* applyForce then updatePosition, as updateBodies calls them on one body.
Integrate(body, force, deltaTime) ==
    updatePosition(applyForce(body, force, deltaTime), deltaTime)

\* Bounce without the energy loss: vel = -vel.
BounceLossless(v) == FNeg(v)

\* The energy kept by a bounce: vel = -vel * 0.8f.
Bounce(v) == MulLit(FNeg(v), 8, 10)

OutsideX(body, W) == FLt(body.position.x, 0) \/ FGt(body.position.x, W)
OutsideY(body, H) == FLt(body.position.y, 0) \/ FGt(body.position.y, H)

\* The boundary handling of updateBodies on one integrated body.
KeepInWorld(body, W, H) ==
    LET pos == body.position
        vel == body.velocity
        px == IF OutsideX(body, W) THEN StdMax(0, StdMin(W, pos.x)) ELSE pos.x
        vx == IF OutsideX(body, W) THEN Bounce(vel.x) ELSE vel.x
        py == IF OutsideY(body, H) THEN StdMax(0, StdMin(H, pos.y)) ELSE pos.y
        vy == IF OutsideY(body, H) THEN Bounce(vel.y) ELSE vel.y
    IN  IF OutsideX(body, W) \/ OutsideY(body, H)
        THEN setVelocity(setPosition(body, Vec2(px, py)), Vec2(vx, vy))
        ELSE body

\* The forces updateBodies computes first, from the positions at the start.
BodyForces(bs, G) == [i \in 1 .. Len(bs) |-> SumBodyForces(bs, i, 1, G, Vec2(0, 0))]

\* updateBodies that removes the bodies it finds outside the world instead of
\* bouncing them.
updateBodiesDroppingEscaped(bs, deltaTime, G, W, H) ==
    LET forces == BodyForces(bs, G)
        moved == [i \in 1 .. Len(bs) |-> Integrate(bs[i], forces[i], deltaTime)]
    IN  SelectSeq(moved, LAMBDA b : ~(OutsideX(b, W) \/ OutsideY(b, H)))

\* GravitySimulation::updateBodies
updateBodies(bs, deltaTime, G, W, H) ==
    LET forces == BodyForces(bs, G)
    IN  [i \in 1 .. Len(bs) |-> KeepInWorld(Integrate(bs[i], forces[i], deltaTime), W, H)]

\* What update did to each body: the body as integrated, before the boundary
\* handling, and whether it was found outside on each axis.
StepRecord(bs, deltaTime, G, W, H) ==
    LET forces == BodyForces(bs, G)
    IN  [i \in 1 .. Len(bs) |->
           LET b == Integrate(bs[i], forces[i], deltaTime)
           IN  [integrated |-> b, outsideX |-> OutsideX(b, W), outsideY |-> OutsideY(b, H)]]

(***************************************************************************)
(* src/Camera.cpp                                                          *)
(***************************************************************************)
\* FreeFlightCamera::FreeFlightCamera
FreeFlightCamera(speed, sensitivity) ==
    [class |-> "FreeFlightCamera",
     distance |-> F(800, 1), angleX |-> F(30, 1), angleY |-> F(-15, 1),
     posX |-> 0, posY |-> 0, posZ |-> 0,
     speed |-> speed, mouseSensitivity |-> sensitivity]

\* GameStyleCamera::GameStyleCamera
GameStyleCamera(speed, sensitivity) ==
    [class |-> "GameStyleCamera",
     yaw |-> 0, pitch |-> F(30, 1), posX |-> 0, posZ |-> 0,
     eyeHeight |-> F(100, 1),
     speed |-> speed, mouseSensitivity |-> sensitivity]

\* std::max(lo, std::min(hi, v))
ClampTo(lo, hi, v) == StdMax(lo, StdMin(hi, v))

\* The wrap of a horizontal angle: one turn off when beyond a full turn.
WrapAngle(a) == IF FGt(a, F(360, 1)) THEN FSub(a, F(360, 1))
                ELSE IF FLt(a, F(-360, 1)) THEN FAdd(a, F(360, 1))
                ELSE a

\* FreeFlightCamera::updateFromMouse
FreeFlightUpdateFromMouse(c, deltaX, deltaY, isMousePressed) ==
    IF isMousePressed
    THEN [c EXCEPT !.angleY = WrapAngle(FAdd(c.angleY, FMul(deltaX, c.mouseSensitivity))),
                   !.angleX = ClampTo(F(-89, 1), F(89, 1),
                                      FAdd(c.angleX, FMul(deltaY, c.mouseSensitivity)))]
    ELSE c

\* FreeFlightCamera::updateFromKeyboard(0, 0, up): with forward = 0 and
\* right = 0 every term of posX and posZ is a product with zero and the zoom
\* is skipped, so only posY moves.
FreeFlightUpdateFromKeyboard(c, up) ==
    [c EXCEPT !.posY = FAdd(c.posY, FMul(up, c.speed))]

\* FreeFlightCamera::syncStateFrom
FreeFlightSyncStateFrom(c, other) ==
    IF other.class = "FreeFlightCamera"
    THEN [c EXCEPT !.distance = other.distance, !.angleX = other.angleX,
                   !.angleY = other.angleY, !.posX = other.posX,
                   !.posY = other.posY, !.posZ = other.posZ]
    ELSE [c EXCEPT !.angleY = other.yaw, !.angleX = other.pitch,
                   !.posX = other.posX, !.posZ = other.posZ,
                   !.posY = FNeg(FSub(other.eyeHeight, F(100, 1)))]

\* GameStyleCamera::updateFromMouse
GameStyleUpdateFromMouse(c, deltaX, deltaY, isMousePressed) ==
    IF isMousePressed
    THEN [c EXCEPT !.yaw = WrapAngle(FAdd(c.yaw, FMul(deltaX, c.mouseSensitivity))),
                   !.pitch = ClampTo(F(-89, 1), F(89, 1),
                                     FAdd(c.pitch, FMul(deltaY, c.mouseSensitivity)))]
    ELSE c

\* GameStyleCamera::updateFromKeyboard(0, 0, up): with forward = 0 and
\* right = 0 only eyeHeight moves.
GameStyleUpdateFromKeyboard(c, up) ==
    [c EXCEPT !.eyeHeight = ClampTo(F(10, 1), F(500, 1),
                                    FAdd(c.eyeHeight, FMul(up, c.speed)))]

\* GameStyleCamera::syncStateFrom
GameStyleSyncStateFrom(c, other) ==
    IF other.class = "GameStyleCamera"
    THEN [c EXCEPT !.yaw = other.yaw, !.pitch = other.pitch, !.posX = other.posX,
                   !.posZ = other.posZ, !.eyeHeight = other.eyeHeight]
    ELSE [c EXCEPT !.yaw = other.angleY, !.pitch = other.angleX,
                   !.posX = other.posX, !.posZ = other.posZ,
                   !.eyeHeight = ClampTo(F(10, 1), F(500, 1),
                                         FAdd(FNeg(other.posY), F(100, 1)))]

\* CameraController::CameraController; currentCamera names the member it
\* points to.
CameraController ==
    [freeFlightCamera |-> FreeFlightCamera(F(10, 1), F(1, 2)),
     gameStyleCamera  |-> GameStyleCamera(F(10, 1), F(1, 2)),
     currentCamera    |-> "freeFlightCamera",
     currentMode      |-> "FreeFlight"]

\* CameraController::synchronizeCameraStates
synchronizeCameraStates(cc) ==
    IF cc.currentMode = "FreeFlight"
    THEN [cc EXCEPT !.gameStyleCamera =
                        GameStyleSyncStateFrom(cc.gameStyleCamera, cc.freeFlightCamera)]
    ELSE [cc EXCEPT !.freeFlightCamera =
                        FreeFlightSyncStateFrom(cc.freeFlightCamera, cc.gameStyleCamera)]

\* CameraController::switchMode
switchMode(cc, mode) ==
    IF mode = cc.currentMode THEN cc
    ELSE [synchronizeCameraStates(cc) EXCEPT
              !.currentMode = mode,
              !.currentCamera = IF mode = "FreeFlight" THEN "freeFlightCamera"
                                ELSE "gameStyleCamera"]

\* *currentCamera
CurrentCamera(cc) == cc[cc.currentCamera]

\* CameraController::updateFromMouse
ControllerUpdateFromMouse(cc, deltaX, deltaY, isMousePressed) ==
    IF cc.currentCamera = "freeFlightCamera"
    THEN [cc EXCEPT !.freeFlightCamera =
                        FreeFlightUpdateFromMouse(@, deltaX, deltaY, isMousePressed)]
    ELSE [cc EXCEPT !.gameStyleCamera =
                        GameStyleUpdateFromMouse(@, deltaX, deltaY, isMousePressed)]

\* CameraController::updateFromKeyboard(0, 0, up)
ControllerUpdateFromKeyboard(cc, up) ==
    IF cc.currentCamera = "freeFlightCamera"
    THEN [cc EXCEPT !.freeFlightCamera = FreeFlightUpdateFromKeyboard(@, up)]
    ELSE [cc EXCEPT !.gameStyleCamera = GameStyleUpdateFromKeyboard(@, up)]

(***************************************************************************)
(* src/Application.cpp                                                     *)
(***************************************************************************)
\* Application::Application: window and renderer tell whether the pointer
\* given is non-null.  The other fields up to isInitialized count the calls
\* made on the IWindow and the IRenderer; returned is what the last
\* initialize returned, and ready is the history "initialize has returned true
\* and cleanup has not been called since".
Application(window, renderer) ==
    [window |-> window, renderer |-> renderer, isInitialized |-> FALSE,
     windowInitialize |-> 0, rendererInitialize |-> 0,
     render |-> 0, swapBuffers |-> 0, pollEvents |-> 0,
     rendererCleanup |-> 0, windowCleanup |-> 0,
     returned |-> "none", ready |-> FALSE]

\* Application::run without the test of isInitialized of lines 30-33.
AppRunUnguarded(app, frames) ==
    IF ~app.window \/ ~app.renderer THEN app
    ELSE [app EXCEPT !.render = @ + frames, !.swapBuffers = @ + frames,
                     !.pollEvents = @ + frames]

\* Application::initialize; windowInitializes is what window->initialize()
\* returns when it is called.
AppInitialize(app, windowInitializes) ==
    IF app.isInitialized
    THEN [app EXCEPT !.returned = TRUE, !.ready = TRUE]
    ELSE IF ~app.window
    THEN [app EXCEPT !.returned = FALSE]
    ELSE IF ~windowInitializes
    THEN [app EXCEPT !.windowInitialize = @ + 1, !.returned = FALSE]
    ELSE IF ~app.renderer
    THEN [app EXCEPT !.windowInitialize = @ + 1, !.returned = FALSE]
    ELSE [app EXCEPT !.windowInitialize = @ + 1, !.rendererInitialize = @ + 1,
                     !.isInitialized = TRUE, !.returned = TRUE, !.ready = TRUE]

\* Application::run; frames is the number of times window->shouldClose()
\* returns false before it returns true.
AppRun(app, frames) ==
    IF ~app.isInitialized THEN app
    ELSE [app EXCEPT !.render = @ + frames, !.swapBuffers = @ + frames,
                     !.pollEvents = @ + frames]

\* Application::cleanup
AppCleanup(app) ==
    [app EXCEPT !.rendererCleanup = IF app.renderer THEN @ + 1 ELSE @,
                !.windowCleanup = IF app.window THEN @ + 1 ELSE @,
                !.isInitialized = FALSE, !.ready = FALSE]

(***************************************************************************)
(* GravityRenderer: what it holds of a simulation, and what it draws       *)
(***************************************************************************)
\* The identities of the GravityBody objects a collection points at: ids, in
\* the collection's order, and created, the number of objects made so far.
NoObjects == [ids |-> << >>, created |-> 0]

\* n new objects pushed onto the back of the collection.
PushObjects(objects, n) ==
    [ids |-> objects.ids \o [i \in 1 .. n |-> objects.created + i],
     created |-> objects.created + n]

\* vector::clear: the collection lets go of every object.
ClearObjects(objects) == [objects EXCEPT !.ids = << >>]

\* GravityRenderer::GravityRenderer: no grid, no bodies. gravityGrid is TRUE
\* when the pointer is the simulation's grid, FALSE when it is null;
\* gravityBodies is the renderer's own vector of pointers.
GravityRenderer ==
    [isInitialized |-> FALSE, gravityGrid |-> FALSE, gravityBodies |-> << >>,
     maxForceVisualization |-> F(500, 1), frames |-> 0, drawn |-> << >>]

\* GravityRenderer::initialize
RendererInitialize(r) == [r EXCEPT !.isInitialized = TRUE]

setGravityGrid(r, grid) == [r EXCEPT !.gravityGrid = grid]

\* setGravityBodies: gravityBodies = bodies copies the vector of pointers.
setGravityBodies(r, ids) == [r EXCEPT !.gravityBodies = ids]

setMaxForceForVisualization(r, maxForce) == [r EXCEPT !.maxForceVisualization = maxForce]

\* GravitySimulation::setupRenderer, on the renderer r; given is FALSE when
\* the pointer handed in is null.
setupRenderer(r, given, objects) ==
    IF ~given THEN r
    ELSE setMaxForceForVisualization(
             setGravityBodies(setGravityGrid(r, TRUE), objects.ids), F(500, 1))

\* The cells render3DSpacetimeGrid reads: every third row over all x, and
\* every third column over all z.
RenderedCells(g) ==
    { c \in (0 .. g.gridWidth - 1) \X (0 .. g.gridHeight - 1) :
         c[1] % 3 = 0 \/ c[2] % 3 = 0 }

\* The index in the simulation's collection of the object id.
IndexOfObject(objects, id) ==
    CHOOSE i \in 1 .. Len(objects.ids) : objects.ids[i] = id

\* GravityRenderer::render: the force magnitudes read from the grid and the
\* body positions read through the renderer's pointers. The objects the
\* renderer points at are read where the simulation holds them.
render(r, g, objects, bs) ==
    IF ~r.isInitialized THEN r
    ELSE [r EXCEPT
            !.frames = @ + 1,
            !.drawn =
                [grid |-> IF r.gravityGrid
                          THEN [c \in RenderedCells(g) |->
                                   getForceMagnitudeAtGridPoint(g, c[1], c[2])]
                          ELSE << >>,
                 bodies |-> [k \in 1 .. Len(r.gravityBodies) |->
                                bs[IndexOfObject(objects, r.gravityBodies[k])].position]]]

(***************************************************************************)
(* GravityApplication (main.cpp)                                           *)
(***************************************************************************)
\* The application of main.cpp as constructed. pc is where the program is:
\* "idle" outside run, "loop" at the test of the main loop, "updated" after
\* the update of an iteration, "rendered" after its render.
GravityApplication ==
    [isInitialized |-> FALSE, pc |-> "idle", lastCall |-> "none", returned |-> "none",
     updates |-> 0, frames |-> 0, initializes |-> 0]

(***************************************************************************)
(* Bounds and inputs                                                       *)
(***************************************************************************)
\* Calls made on one simulation after its construction.
MaxCalls == 3

\* <<worldWidth, worldHeight, gridResolution>> of the simulations explored.
WorldConfigs == { <<20, 20, 25>> }

\* The bodies a caller adds: one moving inside the world, one at rest outside
\* it, one of zero mass (GravityBody's constructor takes any mass).
SampleBodies ==
    { setVelocity(GravityBody(Vec2(F(8, 1), F(2, 1)), F(4, 1), F(5, 1)),
                  Vec2(F(14, 1), F(-3, 1))),
      setVelocity(GravityBody(Vec2(F(-5, 1), F(5, 1)), F(1, 1), F(5, 1)), Vec2(0, 0)),
      setVelocity(GravityBody(Vec2(F(5, 1), F(5, 1)), 0, F(5, 1)), Vec2(0, 0)) }

\* The time steps of update: 0.016 (the main loop's) and 1.
DeltaTimes == { F(16, 1000), F(1, 1) }

\* The values setGravitationalConstant is called with.
GValues == { F(-80, 1) }

NoCall == [fn |-> "none"]

(***************************************************************************)
(* The simulation as a state machine                                       *)
(***************************************************************************)
\* GravitySimulation::GravitySimulation, which constructs the grid.
Construct(cfg) ==
    /\ worldWidth = F(cfg[1], 1)
    /\ worldHeight = F(cfg[2], 1)
    /\ gravitationalConstant = F(DefaultG, 1)
    /\ needsGridUpdate = TRUE
    /\ bodies = << >>
    /\ \E ubW \in CastUB, ubH \in CastUB :
          gravityGrid = NewGravityGrid(F(cfg[1], 1), F(cfg[2], 1), cfg[3], ubW, ubH)
    /\ lastOp = "GravitySimulation"
    /\ initializeCalled = FALSE
    /\ gridRead = FALSE
    /\ lastStep = << >>
    /\ calls = 0

\* The camera controller and the application as constructed, never called.
RenderingIdle == /\ gravityRenderer = GravityRenderer
                 /\ bodyObjects = NoObjects
                 /\ gravityApplication = GravityApplication

OthersIdle == /\ cameraController = CameraController
              /\ application = Application(TRUE, TRUE)
              /\ RenderingIdle

Init == /\ \E cfg \in WorldConfigs : Construct(cfg)
        /\ call = NoCall
        /\ OthersIdle

\* initialize without the resample of line 17.
initializeWithoutResample ==
    /\ calls < MaxCalls
    /\ bodies' = bodies \o createDefaultBodies(worldWidth, worldHeight, gravitationalConstant)
    /\ needsGridUpdate' = FALSE
    /\ lastOp' = "initialize"
    /\ initializeCalled' = TRUE
    /\ gridRead' = FALSE
    /\ calls' = calls + 1
    /\ UNCHANGED <<otherObjects, worldSize, gravitationalConstant, gravityGrid,
                   lastStep, call>>

\* initialize with the collection emptied before the default bodies are made.
initializeAfterClear ==
    /\ calls < MaxCalls
    /\ LET bs == createDefaultBodies(worldWidth, worldHeight, gravitationalConstant)
       IN  /\ bodies' = bs
           /\ gravityGrid' = updateGrid(gravityGrid, bs, gravitationalConstant)
    /\ needsGridUpdate' = FALSE
    /\ lastOp' = "initialize"
    /\ initializeCalled' = TRUE
    /\ gridRead' = FALSE
    /\ calls' = calls + 1
    /\ UNCHANGED <<otherObjects, worldSize, gravitationalConstant, lastStep, call>>

\* GravitySimulation::initialize
initialize ==
    /\ calls < MaxCalls
    /\ LET bs == bodies \o createDefaultBodies(worldWidth, worldHeight, gravitationalConstant)
       IN  /\ bodies' = bs
           /\ gravityGrid' = updateGrid(gravityGrid, bs, gravitationalConstant)
    /\ needsGridUpdate' = FALSE
    /\ lastOp' = "initialize"
    /\ initializeCalled' = TRUE
    /\ gridRead' = FALSE
    /\ calls' = calls + 1
    /\ UNCHANGED <<otherObjects, worldSize, gravitationalConstant, lastStep, call>>

\* GravitySimulation::update
update(deltaTime) ==
    /\ calls < MaxCalls
    /\ LET bs == updateBodies(bodies, deltaTime, gravitationalConstant,
                              worldWidth, worldHeight)
       IN  /\ bodies' = bs
           /\ gravityGrid' = updateGrid(gravityGrid, bs, gravitationalConstant)
    /\ lastStep' = StepRecord(bodies, deltaTime, gravitationalConstant,
                              worldWidth, worldHeight)
    /\ lastOp' = "update"
    /\ gridRead' = FALSE
    /\ calls' = calls + 1
    /\ UNCHANGED <<otherObjects, initializeCalled, worldSize, gravitationalConstant,
                   needsGridUpdate, call>>

\* GravitySimulation::addBody
addBody(body) ==
    /\ calls < MaxCalls
    /\ bodies' = Append(bodies, body)
    /\ needsGridUpdate' = TRUE
    /\ lastOp' = "addBody"
    /\ gridRead' = FALSE
    /\ calls' = calls + 1
    /\ UNCHANGED <<otherObjects, initializeCalled, worldSize, gravitationalConstant,
                   gravityGrid,
                   lastStep, call>>

\* GravitySimulation::clearBodies
clearBodies ==
    /\ calls < MaxCalls
    /\ bodies' = << >>
    /\ needsGridUpdate' = TRUE
    /\ lastOp' = "clearBodies"
    /\ gridRead' = FALSE
    /\ calls' = calls + 1
    /\ UNCHANGED <<otherObjects, initializeCalled, worldSize, gravitationalConstant,
                   gravityGrid,
                   lastStep, call>>

\* GravitySimulation::setGravitationalConstant
setGravitationalConstant(g) ==
    /\ calls < MaxCalls
    /\ gravitationalConstant' = g
    /\ lastOp' = "setGravitationalConstant"
    /\ gridRead' = FALSE
    /\ calls' = calls + 1
    /\ UNCHANGED <<otherObjects, initializeCalled, worldSize, needsGridUpdate, bodies,
                   gravityGrid,
                   lastStep, call>>

\* GravitySimulation::getGravityGrid: hands out the grid as it is.
getGravityGrid ==
    /\ calls < MaxCalls
    /\ gridRead' = TRUE
    /\ calls' = calls + 1
    /\ UNCHANGED <<otherObjects, initializeCalled, worldSize, gravitationalConstant,
                   needsGridUpdate,
                   bodies, gravityGrid, lastOp, lastStep, call>>

Next == \/ initialize
        \/ \E dt \in DeltaTimes : update(dt)
        \/ \E b \in SampleBodies : addBody(b)
        \/ clearBodies
        \/ \E g \in GValues : setGravitationalConstant(g)
        \/ getGravityGrid

Spec == Init /\ [][Next]_vars

(***************************************************************************)
(* The force functions of GravityBody, called on bounded inputs            *)
(***************************************************************************)
\* Positions of the bodies and of the sampled points: separations 0, 5, 10
\* (the minimum separation), 13 and 50 from the origin, and points between.
ForcePositions ==
    { Vec2(0, 0), Vec2(F(3, 1), F(4, 1)), Vec2(F(6, 1), F(8, 1)),
      Vec2(F(-5, 1), F(12, 1)), Vec2(F(30, 1), F(40, 1)), Vec2(F(1, 2), 0) }

\* Masses: fractional, the default planets' and sun's, none, and a negative one
\* (GravityBody's constructor takes any mass).
ForceMasses == << F(13, 10), F(27, 10), F(20, 1), F(5000, 1), 0, F(-2, 1) >>

\* Gravitational constants: the default, one with a fraction, a negative one
\* (setGravitationalConstant takes any value).
ForceG == << F(DefaultG, 1), F(301, 10), F(-80, 1) >>

ForceBody(p, m) == GravityBody(p, m, F(5, 1))

CallForceFrom ==
    \E g \in DOMAIN ForceG, ma \in DOMAIN ForceMasses, mb \in DOMAIN ForceMasses,
       pa \in ForcePositions, pb \in ForcePositions :
        LET a == ForceBody(pa, ForceMasses[ma])
            b == ForceBody(pb, ForceMasses[mb])
        IN  /\ call = NoCall
            /\ call' = [fn |-> "calculateForceFrom", self |-> a, other |-> b,
                        G |-> ForceG[g], result |-> calculateForceFrom(a, b, ForceG[g])]
            /\ UNCHANGED <<otherObjects, initializeCalled, worldSize,
                           gravitationalConstant, needsGridUpdate,
                           bodies, gravityGrid, lastOp, gridRead, lastStep, calls>>

CallGravitationalForce ==
    \E g \in DOMAIN ForceG, ma \in DOMAIN ForceMasses,
       pa \in ForcePositions, p \in ForcePositions :
        LET a == ForceBody(pa, ForceMasses[ma])
        IN  /\ call = NoCall
            /\ call' = [fn |-> "calculateGravitationalForce", self |-> a, point |-> p,
                        G |-> ForceG[g],
                        result |-> calculateGravitationalForce(a, p, ForceG[g])]
            /\ UNCHANGED <<otherObjects, initializeCalled, worldSize,
                           gravitationalConstant, needsGridUpdate,
                           bodies, gravityGrid, lastOp, gridRead, lastStep, calls>>

NextForce == CallForceFrom \/ CallGravitationalForce

SpecForce == Init /\ [][NextForce]_vars

(***************************************************************************)
(* The grid, constructed from bounded arguments and queried                *)
(***************************************************************************)
\* <<width, height, gridResolution>>: resolutions that give fewer than ten
\* cells on an axis and more, and widths that are zero or negative.
GridConfigs ==
    { <<w, h, r>> : w \in {-10, 0, 10, 24}, h \in {10, 12}, r \in {1, 25, 100} }

\* Coordinates of the positions queried: inside the world, on its edges,
\* outside it, and the floats that are no number of world units.
ProbeCoords ==
    { NInf, F(-5, 1), 0, F(21, 10), F(73, 10), F(10, 1), F(24, 1), F(300, 1), PInf, NaN }

InitGrid == \E cfg \in GridConfigs :
               /\ Construct(cfg)
               /\ call = [fn |-> "GravityGrid", arg |-> cfg]
               /\ OthersIdle

\* The bodies updateGrid is called with, and the gravitational constant.
GridBodies == << GravityBody(Vec2(F(5, 1), F(5, 1)), F(20, 1), F(5, 1)),
                 GravityBody(Vec2(F(30, 1), F(-4, 1)), F(5000, 1), F(15, 1)) >>

\* Grid indices queried: in the grid, on its last row and column, and outside
\* on either side, up to the ends of int's range.
QueryIndices == { -IntMax - 1, -1, 0, 5, 9, 10, 11, 12, 23, 24, IntMax }

\* The calls after which the grid is queried.
GridReady == { "GravityGrid", "updateGrid" }

\* GravityGrid::updateGrid on the constructed grid.
CallUpdateGrid ==
    /\ call.fn = "GravityGrid"
    /\ gravityGrid' = updateGrid(gravityGrid, GridBodies, F(DefaultG, 1))
    /\ call' = [fn |-> "updateGrid", arg |-> call.arg]
    /\ UNCHANGED <<otherObjects, initializeCalled, worldSize, gravitationalConstant,
                   needsGridUpdate,
                   bodies, lastOp, gridRead, lastStep, calls>>

\* GravityGrid::getForceAtGridPoint, a const member: the grid stays as it is.
CallGetForceAtGridPoint ==
    \E gx \in QueryIndices, gy \in QueryIndices :
        /\ call.fn \in GridReady
        /\ call' = [fn |-> "getForceAtGridPoint", arg |-> <<gx, gy>>,
                    result |-> getForceAtGridPoint(gravityGrid, gx, gy)]
        /\ UNCHANGED <<otherObjects, initializeCalled, worldSize, gravitationalConstant,
                       needsGridUpdate,
                       bodies, gravityGrid, lastOp, gridRead, lastStep, calls>>

\* GravityGrid::getForceMagnitudeAtGridPoint, a const member.
CallGetForceMagnitudeAtGridPoint ==
    \E gx \in QueryIndices, gy \in QueryIndices :
        /\ call.fn \in GridReady
        /\ call' = [fn |-> "getForceMagnitudeAtGridPoint", arg |-> <<gx, gy>>,
                    result |-> getForceMagnitudeAtGridPoint(gravityGrid, gx, gy)]
        /\ UNCHANGED <<otherObjects, initializeCalled, worldSize, gravitationalConstant,
                       needsGridUpdate,
                       bodies, gravityGrid, lastOp, gridRead, lastStep, calls>>

CallWorldToGrid ==
    \E x \in ProbeCoords, y \in ProbeCoords, ubX \in CastUB, ubY \in CastUB :
        /\ call.fn \in GridReady
        /\ call' = [fn |-> "worldToGrid", arg |-> Vec2(x, y),
                    result |-> worldToGrid(gravityGrid, Vec2(x, y), ubX, ubY)]
        /\ UNCHANGED <<otherObjects, initializeCalled, worldSize, gravitationalConstant,
                       needsGridUpdate,
                       bodies, gravityGrid, lastOp, gridRead, lastStep, calls>>

\* worldToGrid of what gridToWorld returns for a cell of the grid.
CallWorldToGridOfGridToWorld ==
    \E gx \in QueryIndices, gy \in QueryIndices, ubX \in CastUB, ubY \in CastUB :
        /\ call.fn \in GridReady
        /\ isValidGridPoint(gravityGrid, gx, gy)
        /\ call' = [fn |-> "worldToGrid(gridToWorld)", arg |-> <<gx, gy>>,
                    result |-> worldToGrid(gravityGrid, gridToWorld(gravityGrid, gx, gy),
                                           ubX, ubY)]
        /\ UNCHANGED <<otherObjects, initializeCalled, worldSize, gravitationalConstant,
                       needsGridUpdate,
                       bodies, gravityGrid, lastOp, gridRead, lastStep, calls>>

NextGrid == \/ CallUpdateGrid
            \/ CallWorldToGrid
            \/ CallWorldToGridOfGridToWorld
            \/ CallGetForceAtGridPoint
            \/ CallGetForceMagnitudeAtGridPoint

SpecGrid == InitGrid /\ [][NextGrid]_vars

(***************************************************************************)
(* The camera controller as a state machine                                *)
(***************************************************************************)
\* The variables of the simulation, which the other objects leave alone.
simulationVars == <<worldWidth, worldHeight, gravitationalConstant, needsGridUpdate,
                    bodies, gravityGrid, initializeCalled, gridRead, lastStep, call>>

CameraModes == { "FreeFlight", "GameStyle" }

\* Mouse movements <<deltaX, deltaY>>: a small one and one beyond a full turn.
MouseDeltas == { <<F(20, 1), F(-10, 1)>>, <<F(800, 1), F(300, 1)>> }

\* The up argument of updateFromKeyboard (forward = 0, right = 0): the E key,
\* the Q key, and a rise of ten Q frames taken in one call.
KeyboardUps == { F(-1, 1), F(1, 1), F(10, 1) }

InitCamera == /\ \E cfg \in WorldConfigs : Construct(cfg)
              /\ call = NoCall
              /\ OthersIdle

CallSwitchMode(mode) ==
    /\ calls < MaxCalls
    /\ cameraController' = switchMode(cameraController, mode)
    /\ lastOp' = "switchMode"
    /\ calls' = calls + 1
    /\ UNCHANGED <<simulationVars, application, renderingObjects>>

CallUpdateFromMouse(delta, isMousePressed) ==
    /\ calls < MaxCalls
    /\ cameraController' = ControllerUpdateFromMouse(cameraController, delta[1], delta[2],
                                                     isMousePressed)
    /\ lastOp' = "updateFromMouse"
    /\ calls' = calls + 1
    /\ UNCHANGED <<simulationVars, application, renderingObjects>>

CallUpdateFromKeyboard(up) ==
    /\ calls < MaxCalls
    /\ cameraController' = ControllerUpdateFromKeyboard(cameraController, up)
    /\ lastOp' = "updateFromKeyboard"
    /\ calls' = calls + 1
    /\ UNCHANGED <<simulationVars, application, renderingObjects>>

NextCamera == \/ \E mode \in CameraModes : CallSwitchMode(mode)
              \/ \E delta \in MouseDeltas, pressed \in BOOLEAN :
                    CallUpdateFromMouse(delta, pressed)
              \/ \E up \in KeyboardUps : CallUpdateFromKeyboard(up)

SpecCamera == InitCamera /\ [][NextCamera]_vars

(***************************************************************************)
(* The application as a state machine                                      *)
(***************************************************************************)
\* Frames of one run: iterations of the main loop before the window closes.
MaxFrames == 2

InitApplication == /\ \E cfg \in WorldConfigs : Construct(cfg)
                   /\ call = NoCall
                   /\ cameraController = CameraController
                   /\ RenderingIdle
                   /\ \E window \in BOOLEAN, renderer \in BOOLEAN :
                         application = Application(window, renderer)

CallAppInitialize(windowInitializes) ==
    /\ calls < MaxCalls
    /\ application' = AppInitialize(application, windowInitializes)
    /\ lastOp' = "Application::initialize"
    /\ calls' = calls + 1
    /\ UNCHANGED <<simulationVars, cameraController, renderingObjects>>

CallAppRun(frames) ==
    /\ calls < MaxCalls
    /\ application' = AppRun(application, frames)
    /\ lastOp' = "Application::run"
    /\ calls' = calls + 1
    /\ UNCHANGED <<simulationVars, cameraController, renderingObjects>>

CallAppCleanup ==
    /\ calls < MaxCalls
    /\ application' = AppCleanup(application)
    /\ lastOp' = "Application::cleanup"
    /\ calls' = calls + 1
    /\ UNCHANGED <<simulationVars, cameraController, renderingObjects>>

NextApplication == \/ \E ok \in BOOLEAN : CallAppInitialize(ok)
                   \/ \E frames \in 0 .. MaxFrames : CallAppRun(frames)
                   \/ CallAppCleanup

SpecApplication == InitApplication /\ [][NextApplication]_vars

(***************************************************************************)
(* The two-body orbit: a sun and one planet, stepped by update             *)
(***************************************************************************)
\* Number of update steps of the orbit.
OrbitSteps == 1000

\* World of the orbit, <<worldWidth, worldHeight, gridResolution>>: the window
\* of main.cpp with the coarsest grid that is 10 cells on each axis.
OrbitWorld == <<800, 600, 1>>

\* The time step of the orbit, 0.016f.
OrbitDeltaTime == F(16, 1000)

\* The sun and the planet at distance 110, as createDefaultBodies seeds them.
OrbitBodies ==
    LET centerX == MulLit(F(OrbitWorld[1], 1), 1, 2)
        centerY == MulLit(F(OrbitWorld[2], 1), 1, 2)
        gm == FMul(F(DefaultG, 1), F(5000, 1))
    IN  << setVelocity(GravityBody(Vec2(centerX, centerY), F(5000, 1), F(15, 1)),
                       Vec2(0, 0)),
           Planet(centerX, centerY, gm, F(110, 1), F(20, 1), F(4, 1)) >>

InitOrbit == /\ Construct(OrbitWorld)
             /\ call = NoCall
             /\ OthersIdle

\* addBody of the next body of the scenario.
OrbitAddBody ==
    /\ Len(bodies) < Len(OrbitBodies)
    /\ bodies' = Append(bodies, OrbitBodies[Len(bodies) + 1])
    /\ needsGridUpdate' = TRUE
    /\ lastOp' = "addBody"
    /\ gridRead' = FALSE
    /\ calls' = calls + 1
    /\ UNCHANGED <<otherObjects, initializeCalled, worldSize, gravitationalConstant,
                   gravityGrid, lastStep, call>>

\* update(0.016f) once both bodies are in.
OrbitUpdate ==
    /\ Len(bodies) = Len(OrbitBodies)
    /\ calls < Len(OrbitBodies) + OrbitSteps
    /\ LET bs == updateBodies(bodies, OrbitDeltaTime, gravitationalConstant,
                              worldWidth, worldHeight)
       IN  /\ bodies' = bs
           /\ gravityGrid' = updateGrid(gravityGrid, bs, gravitationalConstant)
    /\ lastStep' = StepRecord(bodies, OrbitDeltaTime, gravitationalConstant,
                              worldWidth, worldHeight)
    /\ lastOp' = "update"
    /\ gridRead' = FALSE
    /\ calls' = calls + 1
    /\ UNCHANGED <<otherObjects, initializeCalled, worldSize, gravitationalConstant,
                   needsGridUpdate, call>>

NextOrbit == OrbitAddBody \/ OrbitUpdate

SpecOrbit == InitOrbit /\ [][NextOrbit]_vars

(***************************************************************************)
(* The main loop of main.cpp as a state machine                            *)
(***************************************************************************)
\* Iterations of the main loop, over all the runs of one application.
MaxLoopFrames == 6

\* Calls of GravityApplication::initialize that get as far as the simulation.
MaxInitializes == 2

\* float deltaTime = 0.016f
MainDeltaTime == F(16, 1000)

\* main.cpp builds its simulation for an 800 x 600 world; here the worlds are
\* the bounded ones of WorldConfigs.
InitMainLoop == /\ \E cfg \in WorldConfigs : Construct(cfg)
                /\ call = NoCall
                /\ OthersIdle

\* GravityApplication::initialize: Application::initialize, and if that
\* returns true, gravitySimulation->initialize() and setupSimulationRenderer().
\* windowInitializes is what window->initialize() returns when it is called.
GravityAppInitialize(windowInitializes) ==
    /\ gravityApplication.pc = "idle"
    /\ gravityApplication.initializes < MaxInitializes
    /\ IF ~gravityApplication.isInitialized /\ ~windowInitializes
       THEN /\ gravityApplication' = [gravityApplication EXCEPT
                                         !.lastCall = "initialize", !.returned = FALSE]
            /\ UNCHANGED <<simulationVars, lastOp, calls, gravityRenderer, bodyObjects>>
       ELSE LET created == createDefaultBodies(worldWidth, worldHeight,
                                               gravitationalConstant)
                bs == bodies \o created
                objects == PushObjects(bodyObjects, Len(created))
                renderer == IF gravityApplication.isInitialized THEN gravityRenderer
                            ELSE RendererInitialize(gravityRenderer)
            IN  /\ bodies' = bs
                /\ gravityGrid' = updateGrid(gravityGrid, bs, gravitationalConstant)
                /\ needsGridUpdate' = FALSE
                /\ lastOp' = "initialize"
                /\ initializeCalled' = TRUE
                /\ gridRead' = FALSE
                /\ calls' = calls + 1
                /\ bodyObjects' = objects
                /\ gravityRenderer' = setupRenderer(renderer, TRUE, objects)
                /\ gravityApplication' = [gravityApplication EXCEPT
                                             !.isInitialized = TRUE,
                                             !.lastCall = "initialize",
                                             !.returned = TRUE,
                                             !.initializes = @ + 1]
                /\ UNCHANGED <<worldSize, gravitationalConstant, lastStep, call>>
    /\ UNCHANGED <<cameraController, application>>

\* GravityApplication::run up to the main loop: it returns at once when the
\* application is not initialized.
GravityAppRun ==
    /\ gravityApplication.pc = "idle"
    /\ gravityApplication' = [gravityApplication EXCEPT
                                 !.lastCall = "run",
                                 !.pc = IF gravityApplication.isInitialized
                                        THEN "loop" ELSE "idle"]
    /\ UNCHANGED <<simulationVars, lastOp, calls, gravityRenderer, bodyObjects,
                   cameraController, application>>

\* An iteration of the main loop without the resample of the grid.
LoopUpdateWithoutResample ==
    /\ gravityApplication.pc = "loop"
    /\ gravityApplication.frames < MaxLoopFrames
    /\ bodies' = updateBodies(bodies, MainDeltaTime, gravitationalConstant,
                              worldWidth, worldHeight)
    /\ lastStep' = StepRecord(bodies, MainDeltaTime, gravitationalConstant,
                              worldWidth, worldHeight)
    /\ lastOp' = "update"
    /\ gridRead' = FALSE
    /\ calls' = calls + 1
    /\ gravityApplication' = [gravityApplication EXCEPT
                                 !.pc = "updated", !.updates = @ + 1]
    /\ UNCHANGED <<worldSize, gravitationalConstant, needsGridUpdate, gravityGrid,
                   initializeCalled, call, gravityRenderer, bodyObjects,
                   cameraController, application>>

\* The window is not to close: gravitySimulation->update(deltaTime).
LoopUpdate ==
    /\ gravityApplication.pc = "loop"
    /\ gravityApplication.frames < MaxLoopFrames
    /\ LET bs == updateBodies(bodies, MainDeltaTime, gravitationalConstant,
                              worldWidth, worldHeight)
       IN  /\ bodies' = bs
           /\ gravityGrid' = updateGrid(gravityGrid, bs, gravitationalConstant)
    /\ lastStep' = StepRecord(bodies, MainDeltaTime, gravitationalConstant,
                              worldWidth, worldHeight)
    /\ lastOp' = "update"
    /\ gridRead' = FALSE
    /\ calls' = calls + 1
    /\ gravityApplication' = [gravityApplication EXCEPT
                                 !.pc = "updated", !.updates = @ + 1]
    /\ UNCHANGED <<worldSize, gravitationalConstant, needsGridUpdate,
                   initializeCalled, call, gravityRenderer, bodyObjects,
                   cameraController, application>>

\* renderer->render()
LoopRender ==
    /\ gravityApplication.pc = "updated"
    /\ gravityRenderer' = render(gravityRenderer, gravityGrid, bodyObjects, bodies)
    /\ gravityApplication' = [gravityApplication EXCEPT !.pc = "rendered"]
    /\ UNCHANGED <<simulationVars, lastOp, calls, bodyObjects,
                   cameraController, application>>

\* window->swapBuffers(); window->pollEvents(); and the sleep.
LoopSwapAndPoll ==
    /\ gravityApplication.pc = "rendered"
    /\ gravityApplication' = [gravityApplication EXCEPT !.pc = "loop", !.frames = @ + 1]
    /\ UNCHANGED <<simulationVars, lastOp, calls, gravityRenderer, bodyObjects,
                   cameraController, application>>

\* window->shouldClose() returns true: run returns.
LoopClose ==
    /\ gravityApplication.pc = "loop"
    /\ gravityApplication' = [gravityApplication EXCEPT !.pc = "idle"]
    /\ UNCHANGED <<simulationVars, lastOp, calls, gravityRenderer, bodyObjects,
                   cameraController, application>>

NextMainLoop == \/ \E ok \in BOOLEAN : GravityAppInitialize(ok)
                \/ GravityAppRun
                \/ LoopUpdate
                \/ LoopRender
                \/ LoopSwapAndPoll
                \/ LoopClose

SpecMainLoop == InitMainLoop /\ [][NextMainLoop]_vars

(***************************************************************************)
(* A simulation and the renderer it is set up with, as a state machine     *)
(***************************************************************************)
InitRenderer == /\ \E cfg \in WorldConfigs : Construct(cfg)
                /\ call = NoCall
                /\ OthersIdle

\* GravitySimulation::initialize; createDefaultBodies makes new objects.
RendererSimInitialize ==
    /\ calls < MaxCalls
    /\ LET created == createDefaultBodies(worldWidth, worldHeight, gravitationalConstant)
           bs == bodies \o created
       IN  /\ bodies' = bs
           /\ gravityGrid' = updateGrid(gravityGrid, bs, gravitationalConstant)
           /\ bodyObjects' = PushObjects(bodyObjects, Len(created))
    /\ needsGridUpdate' = FALSE
    /\ lastOp' = "initialize"
    /\ initializeCalled' = TRUE
    /\ gridRead' = FALSE
    /\ calls' = calls + 1
    /\ UNCHANGED <<worldSize, gravitationalConstant, lastStep, call, gravityRenderer,
                   gravityApplication, cameraController, application>>

\* GravitySimulation::setupRenderer(renderer); given is FALSE for a null
\* pointer.
RendererSetup(given) ==
    /\ calls < MaxCalls
    /\ gravityRenderer' = setupRenderer(gravityRenderer, given, bodyObjects)
    /\ lastOp' = "setupRenderer"
    /\ calls' = calls + 1
    /\ UNCHANGED <<simulationVars, bodyObjects, gravityApplication,
                   cameraController, application>>

\* GravitySimulation::addBody of a new object.
RendererSimAddBody(body) ==
    /\ calls < MaxCalls
    /\ bodies' = Append(bodies, body)
    /\ bodyObjects' = PushObjects(bodyObjects, 1)
    /\ needsGridUpdate' = TRUE
    /\ lastOp' = "addBody"
    /\ gridRead' = FALSE
    /\ calls' = calls + 1
    /\ UNCHANGED <<worldSize, gravitationalConstant, gravityGrid, initializeCalled,
                   lastStep, call, gravityRenderer, gravityApplication,
                   cameraController, application>>

\* GravitySimulation::clearBodies
RendererSimClearBodies ==
    /\ calls < MaxCalls
    /\ bodies' = << >>
    /\ bodyObjects' = ClearObjects(bodyObjects)
    /\ needsGridUpdate' = TRUE
    /\ lastOp' = "clearBodies"
    /\ gridRead' = FALSE
    /\ calls' = calls + 1
    /\ UNCHANGED <<worldSize, gravitationalConstant, gravityGrid, initializeCalled,
                   lastStep, call, gravityRenderer, gravityApplication,
                   cameraController, application>>

\* GravitySimulation::update: it moves the objects and keeps the collection.
RendererSimUpdate(deltaTime) ==
    /\ calls < MaxCalls
    /\ LET bs == updateBodies(bodies, deltaTime, gravitationalConstant,
                              worldWidth, worldHeight)
       IN  /\ bodies' = bs
           /\ gravityGrid' = updateGrid(gravityGrid, bs, gravitationalConstant)
    /\ lastStep' = StepRecord(bodies, deltaTime, gravitationalConstant,
                              worldWidth, worldHeight)
    /\ lastOp' = "update"
    /\ gridRead' = FALSE
    /\ calls' = calls + 1
    /\ UNCHANGED <<worldSize, gravitationalConstant, needsGridUpdate, initializeCalled,
                   call, gravityRenderer, bodyObjects, gravityApplication,
                   cameraController, application>>

NextRenderer == \/ RendererSimInitialize
                \/ \E given \in BOOLEAN : RendererSetup(given)
                \/ \E b \in SampleBodies : RendererSimAddBody(b)
                \/ RendererSimClearBodies
                \/ RendererSimUpdate(MainDeltaTime)

SpecRenderer == InitRenderer /\ [][NextRenderer]_vars

(***************************************************************************)
(* Claims about the grid of a simulation (under Spec)                      *)
(***************************************************************************)
\* The cells of a grid, as <<gx, gy>>.
GridCells(g) == (0 .. g.gridWidth - 1) \X (0 .. g.gridHeight - 1)

\* Every cell holds the sum, over the bodies in order, of the force each body
\* exerts at the cell's world position, and nothing else.
GridMatchesBodies ==
    \A c \in GridCells(gravityGrid) :
        getForceAtGridPoint(gravityGrid, c[1], c[2])
            = SumPointForces(bodies, 1, gridToWorld(gravityGrid, c[1], c[2]),
                             gravitationalConstant, Vec2(0, 0))

\* C1: after every update, for every valid grid cell, getForceAtGridPoint is
\* the vector sum over the bodies now in the collection of
\* calculateGravitationalForce at the cell's world position with the current G;
\* nothing of the grid's previous content survives.
C1_UpdateResamplesGridFromCurrentBodies ==
    lastOp = "update" => GridMatchesBodies

\* An update of a simulation that holds bodies and whose grid had been sampled
\* before (by initialize or an earlier update), leaving a cell with a force.
C1_Witness ==
    /\ lastOp = "update"
    /\ calls >= 2
    /\ Len(bodies) >= 1
    /\ ~needsGridUpdate
    /\ \E c \in GridCells(gravityGrid) :
          getForceAtGridPoint(gravityGrid, c[1], c[2]) # Vec2(0, 0)

\* C2: after addBody or clearBodies, what a read through getGravityGrid
\* observes matches the body collection as that call changed it.
C2_GridReadObservesChangedBodies ==
    (gridRead /\ lastOp \in {"addBody", "clearBodies"}) => GridMatchesBodies

(***************************************************************************)
(* Claims about the force functions (under SpecForce)                      *)
(***************************************************************************)
IsForceFromCall == call.fn = "calculateForceFrom"
IsPointForceCall == call.fn = "calculateGravitationalForce"

\* The magnitude the force law gives two bodies at the minimum separation:
\* min(G * m1 * m2 / minDistance^2, maxForce).
MagnitudeAtMinSeparation(a, b, G) ==
    StdMin(FDiv(FMul(FMul(G, a.mass), b.mass),
                FMul(F(BodyMinDistance, 1), F(BodyMinDistance, 1))),
           F(BodyMaxForce, 1))

\* C3: for two bodies at the same position calculateForceFrom returns a finite
\* force whose magnitude is the one the two bodies produce at the minimum
\* separation of 10 world units, min(G*m1*m2/100, 5000).
C3_ZeroDistanceForceHasClampedMagnitude ==
    (IsForceFromCall /\ call.self.position = call.other.position) =>
        /\ IsFin(call.result.x) /\ IsFin(call.result.y)
        /\ magnitude(call.result) = MagnitudeAtMinSeparation(call.self, call.other, call.G)

\* C4: for all masses, positions and G the magnitude of calculateForceFrom
\* never exceeds 5000 and that of calculateGravitationalForce never exceeds 1000.
C4_ForceNeverExceedsMaximum ==
    /\ IsForceFromCall => ~FGt(magnitude(call.result), F(BodyMaxForce, 1))
    /\ IsPointForceCall => ~FGt(magnitude(call.result), F(PointMaxForce, 1))

VNeg(a) == Vec2(FNeg(a.x), FNeg(a.y))

\* C5: A.calculateForceFrom(B, G) is the exact negation of
\* B.calculateForceFrom(A, G), for any two bodies and any G.
C5_ForceIsExactNegationOfReverse ==
    IsForceFromCall =>
        call.result = VNeg(calculateForceFrom(call.other, call.self, call.G))

\* The exact square of the separation of two positions, in units squared.
Separation2(p, q) == (p.x - q.x) * (p.x - q.x) + (p.y - q.y) * (p.y - q.y)

\* C6: for fixed masses and G the magnitude of calculateForceFrom does not
\* grow with the separation, over all separations d >= 0: with the other body
\* moved farther away the magnitude is never greater.
C6_ForceMagnitudeNonIncreasingInSeparation ==
    IsForceFromCall =>
        \A p \in ForcePositions :
            Separation2(call.self.position, p)
                > Separation2(call.self.position, call.other.position)
            => ~FGt(magnitude(calculateForceFrom(call.self, setPosition(call.other, p), call.G)),
                    magnitude(call.result))

(***************************************************************************)
(* Claims about the boundary of the world (under Spec)                     *)
(***************************************************************************)
\* A coordinate is a number within [0, extent].
WithinExtent(v, extent) == IsFin(v) /\ v >= 0 /\ v <= extent

\* C7: after every update, every body's position is inside the closed
\* rectangle [0, worldWidth] x [0, worldHeight].
C7_BodiesInsideWorldAfterUpdate ==
    lastOp = "update" =>
        \A i \in DOMAIN bodies :
            /\ WithinExtent(bodies[i].position.x, worldWidth)
            /\ WithinExtent(bodies[i].position.y, worldHeight)

\* The speeds along the axes on which the last update found body i outside the
\* world, as <<before the bounce, after it>>.
BouncedSpeeds ==
    { <<Abs(lastStep[i].integrated.velocity.x), Abs(bodies[i].velocity.x)>> :
          i \in { j \in DOMAIN lastStep : lastStep[j].outsideX } }
    \cup
    { <<Abs(lastStep[i].integrated.velocity.y), Abs(bodies[i].velocity.y)>> :
          i \in { j \in DOMAIN lastStep : lastStep[j].outsideY } }

\* The speeds that 0.8 times them rounds back to: zero and the two smallest
\* steps above it.
NegligibleSpeed(v) == v <= 2

\* C8 as stated: whenever updateBodies finds a body outside the world on an
\* axis, its speed along that axis after the bounce is strictly less than
\* before the bounce.
C8_BounceStrictlyReducesSpeed ==
    lastOp = "update" => \A s \in BouncedSpeeds : s[2] < s[1]

\* C8, amended: whenever updateBodies finds a body outside the world on an
\* axis, its speed along that axis after the bounce is never greater than
\* before, and is strictly less when the speed before is finite and not
\* negligible (a body at rest on that axis stays at rest).
C8_BounceNeverRaisesSpeed ==
    lastOp = "update" =>
        \A s \in BouncedSpeeds :
            /\ s[2] <= s[1]
            /\ (IsFin(s[1]) /\ ~NegligibleSpeed(s[1])) => s[2] < s[1]

\* An update that bounced a moving body and lowered its speed.
C8_Witness ==
    /\ lastOp = "update"
    /\ \E s \in BouncedSpeeds : IsFin(s[1]) /\ ~NegligibleSpeed(s[1]) /\ s[2] < s[1]

(***************************************************************************)
(* Claims about the grid's geometry (under SpecGrid)                       *)
(***************************************************************************)
\* World dimensions that are no number, for which the constructor's cast to int
\* has no defined result.
UncastableExtents == { NInf, PInf, NaN }

\* C9: for every width, height and gridResolution the constructed grid has
\* gridWidth >= 10 and gridHeight >= 10, and its force array has exactly
\* gridHeight rows of gridWidth cells; whatever the cast yields, the
\* dimension is at least 10.
C9_GridHasAtLeastTenCellsPerAxis ==
    /\ gravityGrid.gridWidth >= MinGridSize
    /\ gravityGrid.gridHeight >= MinGridSize
    /\ DOMAIN gravityGrid.forces = 0 .. gravityGrid.gridHeight - 1
    /\ \A y \in DOMAIN gravityGrid.forces :
          DOMAIN gravityGrid.forces[y] = 0 .. gravityGrid.gridWidth - 1
    /\ \A e \in UncastableExtents, r \in {1, 25, 100}, ub \in CastUB :
          GridDim(e, r, ub) >= MinGridSize

\* The grid of width 10, height 10 and resolution 1, whose resolution gives
\* no cell at all before the floor.
C9_Witness ==
    /\ call.fn = "GravityGrid"
    /\ call.arg = <<10, 10, 1>>
    /\ gravityGrid.gridWidth = MinGridSize
    /\ gravityGrid.gridHeight = MinGridSize
    /\ DOMAIN gravityGrid.forces[9] = 0 .. 9

\* C10: for every world position, also outside the world rectangle,
\* worldToGrid returns (gx, gy) with 0 <= gx <= gridWidth-1 and
\* 0 <= gy <= gridHeight-1: a valid argument of getForceAtGridPoint.
C10_WorldToGridResultIsValidCell ==
    call.fn = "worldToGrid" =>
        /\ 0 <= call.result[1] /\ call.result[1] <= gravityGrid.gridWidth - 1
        /\ 0 <= call.result[2] /\ call.result[2] <= gravityGrid.gridHeight - 1
        /\ isValidGridPoint(gravityGrid, call.result[1], call.result[2])

\* A position right of the world and above it, mapped to the last column and
\* the first row.
C10_Witness ==
    /\ call.fn = "worldToGrid"
    /\ FGt(call.arg.x, gravityGrid.worldWidth)
    /\ FLt(call.arg.y, 0)
    /\ FGt(gravityGrid.worldWidth, 0)
    /\ call.result = <<gravityGrid.gridWidth - 1, 0>>

\* A position inside the rectangle of a world of positive width and height.
InsideWorld(g, p) ==
    /\ FGt(g.worldWidth, 0) /\ FGt(g.worldHeight, 0)
    /\ IsFin(p.x) /\ p.x >= 0 /\ p.x <= g.worldWidth
    /\ IsFin(p.y) /\ p.y >= 0 /\ p.y <= g.worldHeight

\* C11: for every point p inside the world rectangle,
\* gridToWorld(worldToGrid(p)) differs from p by less than one grid-cell
\* spacing on each axis: worldWidth/(gridWidth-1) on x,
\* worldHeight/(gridHeight-1) on y.
C11_RoundTripWithinOneSpacing ==
    (call.fn = "worldToGrid" /\ InsideWorld(gravityGrid, call.arg)) =>
        LET q == gridToWorld(gravityGrid, call.result[1], call.result[2])
        IN  /\ FLt(Abs(FSub(q.x, call.arg.x)),
                   FDiv(gravityGrid.worldWidth, IntToFloat(gravityGrid.gridWidth - 1)))
            /\ FLt(Abs(FSub(q.y, call.arg.y)),
                   FDiv(gravityGrid.worldHeight, IntToFloat(gravityGrid.gridHeight - 1)))

\* An index pair inside [0, gridWidth-1] x [0, gridHeight-1].
IndexInGrid(g, c) ==
    /\ 0 <= c[1] /\ c[1] <= g.gridWidth - 1
    /\ 0 <= c[2] /\ c[2] <= g.gridHeight - 1

\* C12: for every index pair outside [0, gridWidth-1] x [0, gridHeight-1],
\* negative indices included, getForceAtGridPoint returns the zero vector and
\* getForceMagnitudeAtGridPoint returns 0; neither query changes the grid or
\* any other state.
C12_OutOfRangeQueryReturnsZero ==
    /\ [](/\ (call.fn = "getForceAtGridPoint" /\ ~IndexInGrid(gravityGrid, call.arg))
                => call.result = Vec2(0, 0)
          /\ (call.fn = "getForceMagnitudeAtGridPoint"
                /\ ~IndexInGrid(gravityGrid, call.arg))
                => call.result = 0)
    /\ [][call'.fn \in {"getForceAtGridPoint", "getForceMagnitudeAtGridPoint"}
            => UNCHANGED <<otherObjects, initializeCalled, worldSize, gravitationalConstant,
                           needsGridUpdate, bodies, gravityGrid>>]_vars

\* A query left of a grid whose nearest cell holds a force, answered with the
\* zero vector.
C12_Witness ==
    /\ call.fn = "getForceAtGridPoint"
    /\ call.arg[1] < 0
    /\ call.arg[2] = 5
    /\ gravityGrid.forces[5][0] # Vec2(0, 0)
    /\ call.result = Vec2(0, 0)

(***************************************************************************)
(* Claims about the life cycle of a simulation (under Spec)                *)
(***************************************************************************)
\* C13: update called on a simulation on which initialize has not yet been
\* called is a no-op: it leaves every body's position and velocity and every
\* grid cell unchanged, also when addBody was called before it.
C13_UpdateBeforeInitializeChangesNothing ==
    [][(~initializeCalled /\ calls' = calls + 1 /\ lastOp' = "update")
          => (bodies' = bodies /\ gravityGrid' = gravityGrid)]_vars

\* C14: after any sequence of addBody, update and clearBodies calls, every
\* body in the simulation's collection has mass > 0.
C14_EveryBodyHasPositiveMass ==
    \A i \in DOMAIN bodies : FGt(bodies[i].mass, 0)

(***************************************************************************)
(* Claims about the world's dimensions (under SpecGrid)                    *)
(***************************************************************************)
\* C15: a GravitySimulation or GravityGrid constructed with a non-positive
\* world width or height has its world dimensions clamped to a positive
\* minimum, so that worldToGrid and gridToWorld never divide by a world
\* dimension that is zero or negative.
C15_WorldDimensionsArePositive ==
    /\ FGt(worldWidth, 0) /\ FGt(worldHeight, 0)
    /\ FGt(gravityGrid.worldWidth, 0) /\ FGt(gravityGrid.worldHeight, 0)

(***************************************************************************)
(* Claims about initialize and the body collection (under Spec)            *)
(***************************************************************************)
\* The state right after construction followed by one initialize.
FreshlyInitialized == lastOp = "initialize" /\ calls = 1

\* C16: after construction followed by one initialize with no other call in
\* between, the collection holds between 3 and 7 bodies, the default ones, the
\* gravitational constant lies in [80, 100], and the grid is the resample of
\* exactly those bodies at that constant.
C16_InitializeSeedsBodiesAndResamples ==
    FreshlyInitialized =>
        /\ Len(bodies) >= 3 /\ Len(bodies) <= 7
        /\ bodies = createDefaultBodies(worldWidth, worldHeight, gravitationalConstant)
        /\ ~FLt(gravitationalConstant, F(80, 1))
        /\ ~FGt(gravitationalConstant, F(100, 1))
        /\ IsFin(gravitationalConstant)
        /\ GridMatchesBodies

\* A freshly initialized simulation of seven bodies whose grid holds a force.
C16_Witness ==
    /\ FreshlyInitialized
    /\ Len(bodies) = 7
    /\ gravitationalConstant = F(DefaultG, 1)
    /\ \E c \in GridCells(gravityGrid) :
          getForceAtGridPoint(gravityGrid, c[1], c[2]) # Vec2(0, 0)

\* The step is a call of the named mutator of the simulation.
StepOf(op) == calls' = calls + 1 /\ ~gridRead' /\ lastOp' = op

\* C17: the collection only shrinks through clearBodies: update leaves the
\* number, the order, the mass and the radius of the bodies unchanged, addBody
\* appends the new body after all existing ones without reordering them, and
\* clearBodies leaves the collection empty.
C17_CollectionOnlyShrinksThroughClear ==
    [][/\ StepOf("update") =>
             /\ Len(bodies') = Len(bodies)
             /\ \A i \in DOMAIN bodies :
                   /\ bodies'[i].mass = bodies[i].mass
                   /\ bodies'[i].radius = bodies[i].radius
       /\ StepOf("addBody") =>
             /\ Len(bodies') = Len(bodies) + 1
             /\ SubSeq(bodies', 1, Len(bodies)) = bodies
       /\ StepOf("clearBodies") => bodies' = << >>
       /\ Len(bodies') < Len(bodies) => StepOf("clearBodies")]_vars

\* An update that bounced one of several bodies and kept them all, in order.
C17_Witness ==
    /\ lastOp = "update"
    /\ Len(bodies) >= 2
    /\ Len(lastStep) = Len(bodies)
    /\ \E i \in DOMAIN lastStep : lastStep[i].outsideX \/ lastStep[i].outsideY
    /\ \A i \in DOMAIN lastStep : lastStep[i].integrated.mass = bodies[i].mass
    /\ \E i, j \in DOMAIN bodies : bodies[i].mass # bodies[j].mass

(***************************************************************************)
(* Claims about the camera controller (under SpecCamera)                   *)
(***************************************************************************)
\* The pose a mode switch is to keep: <<posX, posZ, yaw, pitch>>.
Pose(c) == IF c.class = "FreeFlightCamera" THEN <<c.posX, c.posZ, c.angleY, c.angleX>>
           ELSE <<c.posX, c.posZ, c.yaw, c.pitch>>

\* C18: switchMode to a mode other than the current one keeps the pose (posX,
\* posZ, yaw, pitch) of the current camera; FreeFlight -> GameStyle ->
\* FreeFlight with no input in between restores the FreeFlight camera's posX,
\* posY and posZ; switchMode to the current mode changes nothing.
C18_SwitchModePreservesPose ==
    LET cc == cameraController
        back == switchMode(switchMode(cc, "GameStyle"), "FreeFlight")
    IN  /\ \A mode \in CameraModes :
              mode # cc.currentMode =>
                  Pose(CurrentCamera(switchMode(cc, mode))) = Pose(CurrentCamera(cc))
        /\ cc.currentMode = "FreeFlight" =>
              /\ back.freeFlightCamera.posX = cc.freeFlightCamera.posX
              /\ back.freeFlightCamera.posY = cc.freeFlightCamera.posY
              /\ back.freeFlightCamera.posZ = cc.freeFlightCamera.posZ
        /\ switchMode(cc, cc.currentMode) = cc

(***************************************************************************)
(* Claims about the application (under SpecApplication)                    *)
(***************************************************************************)
\* The step is a call of the named member of Application.
AppStepOf(op) == calls' = calls + 1 /\ lastOp' = op

\* C19: run renders, swaps buffers and polls events only when initialize has
\* returned true and cleanup has not been called since; initialize on an
\* initialized Application returns true without initializing the window or
\* the renderer again; cleanup can be called in every state, any number of
\* times, and leaves the application not initialized.
C19_RunOnlyWhenInitialized ==
    [][/\ (\/ application'.render # application.render
           \/ application'.swapBuffers # application.swapBuffers
           \/ application'.pollEvents # application.pollEvents)
          => (AppStepOf("Application::run") /\ application.ready)
       /\ (AppStepOf("Application::initialize") /\ application.isInitialized)
          => /\ application'.returned = TRUE
             /\ application'.windowInitialize = application.windowInitialize
             /\ application'.rendererInitialize = application.rendererInitialize
       /\ AppStepOf("Application::cleanup")
          => (~application'.isInitialized /\ ~application'.ready)
       /\ (calls < MaxCalls) => ENABLED CallAppCleanup]_vars

\* initialize, a run that rendered, and a second initialize that returned
\* true without initializing the window again.
C19_Witness ==
    /\ lastOp = "Application::initialize"
    /\ calls = 3
    /\ application.render >= 1
    /\ application.swapBuffers = application.render
    /\ application.pollEvents = application.render
    /\ application.windowInitialize = 1
    /\ application.rendererInitialize = 1
    /\ application.returned = TRUE

(***************************************************************************)
(* Claims about the two-body orbit (under SpecOrbit)                       *)
(***************************************************************************)
\* Distance of the orbiter from the central body in the collection bs.
OrbitDistance(bs) == magnitude(VSub(bs[2].position, bs[1].position))

\* C20: with the central mass of 5000 at the world centre and the orbiter of
\* mass 20 seeded at distance 110 with speed sqrt(G * 5000 / 110), the
\* orbiter's distance from the central body is within 15% of its initial
\* distance after each of the 1000 updates at dt = 0.016.
C20_OrbitStaysWithinBand ==
    Len(bodies) = Len(OrbitBodies) =>
        LET initial == OrbitDistance(OrbitBodies)
            now == OrbitDistance(bodies)
        IN  IsFin(now) /\ 100 * Abs(now - initial) <= 15 * initial

(***************************************************************************)
(* Claims about one step of the integration (under Spec)                   *)
(***************************************************************************)
\* (v + (f / m) * dt) * 0.9999 on one axis.
DampedVelocity(v, f, m, dt) == MulLit(FAdd(v, FMul(FDiv(f, m), dt)), 9999, 10000)

\* C22: for a body that update(dt) finds inside the world after integrating
\* it, velocity' = (velocity + (force / mass) * dt) * 0.9999, damped once, and
\* position' = position + velocity' * dt, with the velocity already updated.
C22_StepIsSemiImplicitEuler ==
    [][\A dt \in DeltaTimes :
          (/\ StepOf("update")
           /\ lastStep' = StepRecord(bodies, dt, gravitationalConstant,
                                     worldWidth, worldHeight))
          => \A i \in 1 .. Len(bodies) :
                (~lastStep'[i].outsideX /\ ~lastStep'[i].outsideY) =>
                    LET b == bodies[i]
                        f == BodyForces(bodies, gravitationalConstant)[i]
                        vx == DampedVelocity(b.velocity.x, f.x, b.mass, dt)
                        vy == DampedVelocity(b.velocity.y, f.y, b.mass, dt)
                    IN  /\ bodies'[i].velocity = Vec2(vx, vy)
                        /\ bodies'[i].position = Vec2(FAdd(b.position.x, FMul(vx, dt)),
                                                      FAdd(b.position.y, FMul(vy, dt)))
                        /\ bodies'[i].mass = b.mass]_vars

\* An update has left a body inside the world, under a force, moving.
C22_Witness ==
    /\ lastOp = "update"
    /\ Len(bodies) >= 2
    /\ \E i \in 1 .. Len(bodies) :
          /\ ~lastStep[i].outsideX /\ ~lastStep[i].outsideY
          /\ IsFin(bodies[i].velocity.x) /\ bodies[i].velocity.x # 0
          /\ IsFin(bodies[i].velocity.y) /\ bodies[i].velocity.y # 0
          /\ bodies[i] = lastStep[i].integrated

(***************************************************************************)
(* The direction of gravity (under SpecForce)                              *)
(***************************************************************************)
\* A component of a force along a component of a direction: zero, or of the
\* direction's sign, and zero where the direction has no extent.
AlongComponent(f, d) ==
    /\ IsFin(f)
    /\ (d = 0) => (f = 0)
    /\ (d > 0) => (f >= 0)
    /\ (d < 0) => (f <= 0)

Along(force, direction) ==
    /\ AlongComponent(force.x, direction.x)
    /\ AlongComponent(force.y, direction.y)

IsPositive(x) == IsFin(x) /\ x > 0

\* C23: gravity is attractive: for distinct positions and positive masses and
\* G, calculateForceFrom(other) is a non-negative multiple of
\* other.position - self.position (it points from this body toward the other),
\* and calculateGravitationalForce(point) is a non-negative multiple of
\* body.position - point (it points from the point toward the body).
C23_GravityIsAttractive ==
    /\ (/\ IsForceFromCall
        /\ call.self.position # call.other.position
        /\ IsPositive(call.self.mass) /\ IsPositive(call.other.mass)
        /\ IsPositive(call.G))
       => Along(call.result, VSub(call.other.position, call.self.position))
    /\ (/\ IsPointForceCall
        /\ call.self.position # call.point
        /\ IsPositive(call.self.mass)
        /\ IsPositive(call.G))
       => Along(call.result, VSub(call.self.position, call.point))

\* A body-on-body force with both components away from zero, between bodies
\* of positive mass at different positions under a positive G.
C23_Witness ==
    /\ IsForceFromCall
    /\ call.self.position # call.other.position
    /\ IsPositive(call.self.mass) /\ IsPositive(call.other.mass)
    /\ IsPositive(call.G)
    /\ call.result.x < 0 /\ call.result.y > 0

(***************************************************************************)
(* Claims about the main loop (under SpecMainLoop)                         *)
(***************************************************************************)
\* What a render of the grid resampled from bs draws: the magnitude of the
\* summed forces at every cell it reads, and the position of every body.
DrawnOfResample(g, bs, G) ==
    [grid |-> [c \in RenderedCells(g) |->
                  magnitude(SumPointForces(bs, 1, gridToWorld(g, c[1], c[2]), G,
                                           Vec2(0, 0)))],
     bodies |-> [k \in 1 .. Len(bs) |-> bs[k].position]]

\* C24: in the main loop every render is preceded, in the same iteration, by
\* a completed update(dt), and rendering changes neither the bodies nor the
\* grid; hence at every render the grid is the resample of the bodies'
\* current positions, and that is what is drawn.
C24_RenderSeesResampledGrid ==
    [][gravityRenderer'.frames # gravityRenderer.frames =>
          /\ gravityApplication.pc = "updated"
          /\ lastOp = "update"
          /\ gravityApplication.updates = gravityRenderer.frames + 1
          /\ UNCHANGED <<bodies, gravityGrid>>
          /\ GridMatchesBodies
          /\ gravityRenderer'.drawn
                = DrawnOfResample(gravityGrid, bodies, gravitationalConstant)]_vars

\* The second render or a later one, of bodies that moved since the loop
\* began, with a force drawn.
C24_Witness ==
    /\ gravityApplication.pc = "rendered"
    /\ gravityRenderer.frames >= 2
    /\ Len(bodies) >= 7
    /\ bodies # createDefaultBodies(worldWidth, worldHeight, gravitationalConstant)
    /\ \E c \in RenderedCells(gravityGrid) : gravityRenderer.drawn.grid[c] > 0
    /\ gravityRenderer.drawn.bodies = [k \in 1 .. Len(bodies) |-> bodies[k].position]

(***************************************************************************)
(* Claims about the stale flag and the collection (under Spec)             *)
(***************************************************************************)
\* C25: in every reachable state, needsGridUpdate = false implies that the
\* grid is the resample of the current bodies at the current gravitational
\* constant, whatever the order of initialize, update, addBody, clearBodies
\* and setGravitationalConstant.
C25_ClearFlagMeansGridIsCurrent ==
    ~needsGridUpdate => GridMatchesBodies

\* The default bodies of the simulation as it is now.
DefaultBodies == createDefaultBodies(worldWidth, worldHeight, gravitationalConstant)

\* k times the default bodies, one copy after the other.
RECURSIVE Copies(_)
Copies(k) == IF k = 0 THEN << >> ELSE Copies(k - 1) \o DefaultBodies

\* The number of entries of bs equal to the body b.
Occurrences(bs, b) == Cardinality({ i \in 1 .. Len(bs) : bs[i] = b })

\* C26: initialize does not clear the collection: each call appends the same
\* seven default bodies after the bodies already present, so after k calls on
\* a fresh simulation with no other mutator the collection holds exactly 7k
\* bodies, each default body occurring k times at the same position.
C26_InitializeAppendsDefaults ==
    /\ bodies = Copies(0)
    /\ [][StepOf("initialize") =>
             /\ bodies' = bodies \o DefaultBodies
             /\ Len(DefaultBodies) = 7
             /\ \A k \in 0 .. MaxCalls :
                   bodies = Copies(k) =>
                       /\ bodies' = Copies(k + 1)
                       /\ Len(bodies') = 7 * (k + 1)
                       /\ \A i \in 1 .. 7 :
                             /\ Occurrences(bodies', DefaultBodies[i]) = k + 1
                             /\ \A j \in 0 .. k :
                                   bodies'[7 * j + i].position
                                       = DefaultBodies[i].position]_vars

\* Three calls of initialize on a fresh simulation and nothing else.
C26_Witness ==
    /\ lastOp = "initialize"
    /\ calls = 3
    /\ Len(bodies) = 21
    /\ bodies = Copies(3)

(***************************************************************************)
(* Claims about the boundary (under Spec)                                  *)
(***************************************************************************)
\* The velocity component v of a body that the last update clamped from the
\* coordinate p onto a boundary of [0, extent] is zero or points into the
\* world.
PointsIntoWorld(p, v, extent) ==
    /\ FLt(p, 0) => (v # NaN /\ v >= 0)
    /\ FGt(p, extent) => (v # NaN /\ v <= 0)

\* C27: after an update in which a body was clamped onto a world boundary,
\* the body's velocity component along that axis is zero or points into the
\* world (not negative at the 0 boundary, not positive at the worldWidth or
\* worldHeight boundary), also when the body began the step outside the world
\* moving inward.
C27_ClampedBodyMovesInward ==
    lastOp = "update" =>
        \A i \in DOMAIN lastStep :
            /\ lastStep[i].outsideX =>
                   PointsIntoWorld(lastStep[i].integrated.position.x,
                                   bodies[i].velocity.x, worldWidth)
            /\ lastStep[i].outsideY =>
                   PointsIntoWorld(lastStep[i].integrated.position.y,
                                   bodies[i].velocity.y, worldHeight)

(***************************************************************************)
(* Claims about the renderer of a simulation (under SpecRenderer)          *)
(***************************************************************************)
\* setupRenderer has handed the renderer the simulation's grid and bodies.
RendererIsSetUp == gravityRenderer.gravityGrid

\* C28: after setupRenderer(renderer), the renderer's body list holds the
\* same bodies in the same order as the simulation's collection in every
\* later state, also after addBody and clearBodies made after setupRenderer.
C28_RendererListFollowsCollection ==
    RendererIsSetUp => gravityRenderer.gravityBodies = bodyObjects.ids

\* C29: in every reachable state after initialize (not only directly after
\* an update), every body's position lies inside
\* [0, worldWidth] x [0, worldHeight], for every world size the simulation is
\* constructed with and every body addBody accepts.
C29_BodiesInsideWorldOnceInitialized ==
    initializeCalled =>
        \A i \in DOMAIN bodies :
            /\ WithinExtent(bodies[i].position.x, worldWidth)
            /\ WithinExtent(bodies[i].position.y, worldHeight)

(***************************************************************************)
(* Claims about the two conversions of the grid (under SpecGrid)           *)
(***************************************************************************)
\* C30: gridToWorld is a right inverse of worldToGrid on valid indices: for
\* every (gx, gy) with 0 <= gx < gridWidth and 0 <= gy < gridHeight,
\* worldToGrid(gridToWorld(gx, gy)) = (gx, gy).
C30_GridToWorldIsRightInverse ==
    call.fn = "worldToGrid(gridToWorld)" => call.result = call.arg

=============================================================================
